---------------------------- MODULE Spec2Model ----------------------------
(***************************************************************************)
(* A model of the two EPUB scripts of linuxstorybook:                      *)
(*                                                                         *)
(*   scripts/update-epub-metadata.js  (Pipeline A, updateEpubMetadata)     *)
(*   the EPUB build script            (Pipeline B, buildEPUB)              *)
(*                                                                         *)
(* Text is modelled as a sequence of tokens.  A token stands for one piece *)
(* of text that the regular expressions of the scripts treat as a unit: a  *)
(* heading marker, a complete metadata element, a run of blanks, a word.   *)
(* Three specifications share the module:                                  *)
(*                                                                         *)
(*   SpecMeta    the metadata substitution engine, run twice on a document *)
(*   SpecDecomp  the chapter decomposition loop, createOPF and createNav   *)
(*   Spec        whole runs of both pipelines over one file system         *)
(***************************************************************************)
EXTENDS Integers, Sequences, FiniteSets, TLC

VARIABLES
    \* ---- the substitution engine (update-epub-metadata.js 81-128)
    opfContent,     \* the text of the package document, a sequence of tokens
    mpc,            \* the next statement of the engine
    engineRuns,     \* completed runs of the engine on this document
    afterFirst,     \* opfContent as the first run left it
    \* ---- the decomposition loop of buildEPUB (419-493)
    blocks,         \* the headings and sections the input text was written from
    bodyContent,    \* the text between <body> and </body>, a sequence of tokens
    parts,          \* bodyContent.split(/<h1 >/)
    i,              \* the index of the outer loop
    h2Parts,        \* remainingContent.split(/<h2 >/)
    j,              \* the index of the inner loop
    chapterName,    \* the chapter name of parts[i]
    chapters,       \* the chapter records
    chapterIndex,   \* the filename counter
    written,        \* the fragment files written, in the order of the writes
    emitLog,        \* per titled section met so far: TRUE if it gave a record
    opf,            \* what createOPF wrote: [manifest, spine]
    nav,            \* what createNav wrote: the group entries of the list
    dpc,            \* the next step of the decomposition
    \* ---- whole runs of the two scripts
    pipeline,       \* the script that runs or ran last: "A", "B" or "none"
    pc,             \* the next step of the run, "done" once the process ended
    runs,           \* the runs started so far
    exitCode,       \* the exit status of the process, -1 while it runs
    failure,        \* the failure the run reported, "" if none
    reported,       \* the run printed its success message
    inputFile,      \* Pipeline A: the input EPUB, [exists, files]
    tempDir,        \* Pipeline A: the scratch directory, [exists, files]
    opfPath,        \* Pipeline A: the package document that was found
    outputFile,     \* Pipeline A: the entries of the output archive, <<>> if none
    allHtml,        \* Pipeline B: out/all.html, [exists, text]
    outputDir,      \* Pipeline B: the scratch directory, [exists, files]
    epubPath,       \* Pipeline B: the entries of today's output archive
    scratchCreated,     \* this run has made sure its scratch directory exists
    cleanupAttempted,   \* this run has called rm -rf on its scratch directory
    zipInvoked,         \* this run has started the archive command
    zipDone             \* the archive command of this run has succeeded

metaVars == <<opfContent, mpc, engineRuns, afterFirst>>

\* what the loop leaves behind, and the loop's own variables
resultVars == <<chapters, opf, nav>>

loopVars == <<blocks, bodyContent, parts, i, h2Parts, j, chapterName,
              chapterIndex, written, emitLog, dpc>>

decVars == <<resultVars, loopVars>>

runVars == <<pipeline, pc, runs, exitCode, failure, reported>>

historyVars == <<scratchCreated, cleanupAttempted, zipInvoked, zipDone>>

fileVarsA == <<inputFile, tempDir, opfPath, outputFile>>

fileVarsB == <<allHtml, outputDir, epubPath>>

pipeVars == <<runVars, historyVars, fileVarsA, fileVarsB>>

vars == <<metaVars, decVars, pipeVars>>

-----------------------------------------------------------------------------
(***************************************************************************)
(* Bounds of the model.                                                    *)
(***************************************************************************)
MaxDocLen == 3
MaxBlocks == 4
MaxRuns == 2

-----------------------------------------------------------------------------
(***************************************************************************)
(* Generic helpers on sequences.                                           *)
(***************************************************************************)
Range(s) == {s[k] : k \in 1..Len(s)}

SeqsUpTo(S, n) == UNION {[1..k -> S] : k \in 0..n}

RECURSIVE Concat(_)
Concat(ss) == IF ss = <<>> THEN <<>> ELSE Head(ss) \o Concat(Tail(ss))

-----------------------------------------------------------------------------
(***************************************************************************)
(* The metadata record (update-epub-metadata.js 10-19).  The Persian       *)
(* values are written in English; no value holds a line break, a "$" or a  *)
(* tag.                                                                    *)
(***************************************************************************)
metadata ==
    [title       |-> "Just for Fun",
     author      |-> "Linus Torvalds and David Diamond",
     translator  |-> "Jadi Mirmirani",
     language    |-> "fa",
     publisher   |-> "LinuxStory.ir",
     rights      |-> "CC0 1.0 Universal",
     description |-> "The story of the life of Linus Torvalds",
     subject     |-> "Computers, programming, Linux, free software"]

(***************************************************************************)
(* Package document tokens.  An element token is one element              *)
(* <tag ...>value</tag>: oneLine says that no line break stands between    *)
(* the end of its opening tag and its closing tag (the "." of the regular  *)
(* expression matches no line break), attrs that its opening tag carries   *)
(* attributes.  EndMetadata is the text "</metadata>".                     *)
(***************************************************************************)
Element(fullTag, value, oneLine, attrs) ==
    [tag |-> fullTag, value |-> value, oneLine |-> oneLine, attrs |-> attrs]

EndMetadata == Element("/metadata", <<>>, TRUE, FALSE)

\* The label 'ترجمه:' ("translation:") of lines 111 and 114.
TranslatorLabel == "tarjomeh:"

\* const fullTag = namespace ? `${namespace}:${tag}` : tag  (line 88)
FullTag(namespace, tag) == IF namespace # "" THEN namespace \o ":" \o tag ELSE tag

\* new RegExp(`<${fullTag}[^>]*>.*?<\/${fullTag}>`, 'gi') on one token (line 89):
\* an element of that name, with or without attributes, closed on its line.
RegexMatches(tok, fullTag) == tok.tag = fullTag /\ tok.oneLine

\* content.replace(regex, newTag) with the g flag: every match is replaced.
ReplaceAll(content, fullTag, newTag) ==
    [k \in 1..Len(content) |->
        IF RegexMatches(content[k], fullTag) THEN newTag ELSE content[k]]

\* content.replace(/<\/metadata>/, `    ${newTag}\n  </metadata>`): the first
\* "</metadata>" becomes the new element followed by "</metadata>"; a text
\* without "</metadata>" is returned as it is (lines 97, 112-115, 121-124).
ReplaceEndMetadata(content, newTag) ==
    IF \E k \in 1..Len(content) : content[k] = EndMetadata
    THEN LET k == CHOOSE m \in 1..Len(content) :
                    /\ content[m] = EndMetadata
                    /\ \A n \in 1..(m - 1) : content[n] # EndMetadata
         IN  SubSeq(content, 1, k - 1) \o <<newTag, EndMetadata>>
                 \o SubSeq(content, k + 1, Len(content))
    ELSE content

\* updateMetadataTag (lines 87-99)
updateMetadataTag(content, namespace, tag, value, attributes) ==
    LET fullTag == FullTag(namespace, tag)
        newTag  == Element(fullTag, value, TRUE, attributes # "")
    IN  IF \E k \in 1..Len(content) : RegexMatches(content[k], fullTag)
        THEN ReplaceAll(content, fullTag, newTag)
        ELSE ReplaceEndMetadata(content, newTag)

\* The seven calls of lines 102-108, in their order: <<tag, value>>.
FieldUpdates ==
    << <<"title",       <<metadata.title>> >>,
       <<"creator",     <<metadata.author>> >>,
       <<"language",    <<metadata.language>> >>,
       <<"publisher",   <<metadata.publisher>> >>,
       <<"rights",      <<metadata.rights>> >>,
       <<"description", <<metadata.description>> >>,
       <<"subject",     <<metadata.subject>> >> >>

RECURSIVE ApplyFieldUpdates(_, _)
ApplyFieldUpdates(content, k) ==
    IF k > Len(FieldUpdates) THEN content
    ELSE ApplyFieldUpdates(
             updateMetadataTag(content, "dc", FieldUpdates[k][1],
                               FieldUpdates[k][2], ""),
             k + 1)

\* A mutant of IncludesTranslatorLabel: the text is searched for a label that
\* the inserted element does not carry.
IncludesOtherLabel(content) ==
    \E k \in 1..Len(content) : "translator:" \in Range(content[k].value)

\* opfContent.includes('ترجمه:') (line 111)
IncludesTranslatorLabel(content) ==
    \E k \in 1..Len(content) : TranslatorLabel \in Range(content[k].value)

\* opfContent.includes('<dc:date>') (line 120): an opening tag without attributes
IncludesDateTag(content) ==
    \E k \in 1..Len(content) :
        content[k].tag = "dc:date" /\ ~content[k].attrs

\* new Date().toISOString().split('T')[0] (line 119)
Today == <<"today">>

ContributorElement ==
    Element("dc:contributor", <<TranslatorLabel, metadata.translator>>,
            TRUE, FALSE)

DateElement == Element("dc:date", Today, TRUE, FALSE)

(***************************************************************************)
(* The documents the engine is run on: every sequence of at most MaxDocLen *)
(* of these tokens.  Elements of two of the seven fields (the first and    *)
(* the last that is updated) in both forms, a contributor with and without *)
(* the translator label, a date with and without attributes, and           *)
(* "</metadata>".                                                          *)
(***************************************************************************)
OldValue == <<"old">>

DocTokens ==
    {Element(t, OldValue, l, FALSE) : t \in {"dc:title", "dc:subject"}, l \in BOOLEAN}
    \cup {Element("dc:contributor", <<"editor">>, TRUE, FALSE),
          Element("dc:contributor", <<TranslatorLabel, "someone">>, TRUE, FALSE),
          Element("dc:date", <<"2020-01-01">>, TRUE, FALSE),
          Element("dc:date", <<"2020-01-01">>, TRUE, TRUE),
          EndMetadata}

Documents == SeqsUpTo(DocTokens, MaxDocLen)

MaxEngineRuns == 2

\* lines 102-108
UpdateFields ==
    /\ mpc = "fields"
    /\ engineRuns < MaxEngineRuns
    /\ opfContent' = ApplyFieldUpdates(opfContent, 1)
    /\ mpc' = "contributor"
    /\ UNCHANGED <<engineRuns, afterFirst, decVars, pipeVars>>

\* lines 111-116
AddContributor ==
    /\ mpc = "contributor"
    /\ opfContent' = IF ~IncludesTranslatorLabel(opfContent)
                     THEN ReplaceEndMetadata(opfContent, ContributorElement)
                     ELSE opfContent
    /\ mpc' = "date"
    /\ UNCHANGED <<engineRuns, afterFirst, decVars, pipeVars>>

\* lines 119-125; the text is then written back (line 128) and the next run
\* of the script reads it again (line 81).
AddDate ==
    /\ mpc = "date"
    /\ opfContent' = IF ~IncludesDateTag(opfContent)
                     THEN ReplaceEndMetadata(opfContent, DateElement)
                     ELSE opfContent
    /\ mpc' = "fields"
    /\ engineRuns' = engineRuns + 1
    /\ afterFirst' = IF engineRuns = 0 THEN opfContent' ELSE afterFirst
    /\ UNCHANGED <<decVars, pipeVars>>

NextMeta == UpdateFields \/ AddContributor \/ AddDate

-----------------------------------------------------------------------------
(***************************************************************************)
(* HTML text.  The tokens of the input text of buildEPUB: the four heading *)
(* markers in the literal form the script looks for, the end-of-book       *)
(* separator, any other tag, a run of white space, and words.              *)
(***************************************************************************)
H1Open  == "<h1 >"
H1Close == "</h1>"
H2Open  == "<h2 >"
H2Close == "</h2>"
\* '<hr><b>فقط برای تفریح' (line 459): the rule and the book title after it
BookSeparator == "<hr><b>Just for Fun"
OtherTag == "<p>"
Blank == " "

\* The tokens that start with "<": what [^<] does not match.
StartsWithLt(tok) ==
    tok \in {H1Open, H1Close, H2Open, H2Close, BookSeparator, OtherTag}

\* The first index of s whose token satisfies P, or 0.
FirstIndex(s, P(_)) ==
    IF \E k \in 1..Len(s) : P(s[k])
    THEN CHOOSE k \in 1..Len(s) : P(s[k]) /\ \A m \in 1..(k - 1) : ~P(s[m])
    ELSE 0

\* String.prototype.split with a pattern that matches the one token d.
RECURSIVE Split(_, _)
Split(s, d) ==
    LET IsD(t) == t = d
        k == FirstIndex(s, IsD)
    IN  IF k = 0 THEN <<s>>
        ELSE <<SubSeq(s, 1, k - 1)>> \o Split(SubSeq(s, k + 1, Len(s)), d)

\* String.prototype.trim: white space is cut at both ends.
RECURSIVE TrimStart(_)
TrimStart(s) ==
    IF s # <<>> /\ Head(s) = Blank THEN TrimStart(Tail(s)) ELSE s

RECURSIVE TrimEnd(_)
TrimEnd(s) ==
    IF s # <<>> /\ s[Len(s)] = Blank THEN TrimEnd(SubSeq(s, 1, Len(s) - 1)) ELSE s

Trim(s) == TrimEnd(TrimStart(s))

\* part.match(/^([^<]+)<\/h1[^>]*>/) and h2Part.match(/^([^<]+)<\/h2[^>]*>/)
\* (lines 439 and 452): the number n >= 1 of leading tokens the group takes
\* when the closing tag follows them, 0 when there is no match.  The match
\* is then n + 1 tokens long.
HeadingMatch(part, closeTag) ==
    LET n == IF \E k \in 1..Len(part) : StartsWithLt(part[k])
             THEN FirstIndex(part, StartsWithLt) - 1
             ELSE Len(part)
    IN  IF n >= 1 /\ n < Len(part) /\ part[n + 1] = closeTag THEN n ELSE 0

\* content.match(/<h2 >|<h1 >|<hr><b>فقط برای تفریح/) (line 459): the index of
\* the first end marker, 0 when there is none.
IsEndMarker(tok) == tok \in {H2Open, H1Open, BookSeparator}

EndMatch(content) == FirstIndex(content, IsEndMarker)

\* `chapter${chapterIndex}.xhtml` (line 469)
Filename(n) == "chapter" \o ToString(n) \o ".xhtml"

\* A mutant of SectionContent: the text is not cut at the end marker.
SectionContentUncut(h2Part, n) == Trim(SubSeq(h2Part, n + 2, Len(h2Part)))

\* lines 456-465: the content of a section whose title took n tokens
SectionContent(h2Part, n) ==
    LET content == SubSeq(h2Part, n + 2, Len(h2Part))
        endMatch == EndMatch(content)
    IN  Trim(IF endMatch # 0 THEN SubSeq(content, 1, endMatch - 1) ELSE content)

\* A mutant of SectionStep: the counter is raised for every titled section,
\* also for one that is dropped.
SectionStepCountsAll(st, h2Part) ==
    LET n == HeadingMatch(h2Part, H2Close)
        content == SectionContent(h2Part, n)
        filename == Filename(st.chapterIndex + 1)
    IN  IF n = 0 THEN st
        ELSE IF content # <<>>
        THEN [chapters |-> Append(st.chapters,
                               [chapter |-> st.chapterName,
                                title |-> Trim(SubSeq(h2Part, 1, n)),
                                filename |-> filename,
                                content |-> content]),
              chapterIndex |-> st.chapterIndex + 1,
              chapterName |-> st.chapterName,
              written |-> Append(st.written, filename),
              emitLog |-> Append(st.emitLog, TRUE)]
        ELSE [st EXCEPT !.chapterIndex = @ + 1, !.emitLog = Append(@, FALSE)]

\* The body of the inner loop (lines 449-484) on one element of h2Parts.
\* st holds chapters, chapterIndex, chapterName, written and emitLog.
SectionStep(st, h2Part) ==
    LET n == HeadingMatch(h2Part, H2Close)
        content == SectionContent(h2Part, n)
        filename == Filename(st.chapterIndex + 1)
    IN  IF n = 0 THEN st
        ELSE IF content # <<>>
        THEN [chapters |-> Append(st.chapters,
                               [chapter |-> st.chapterName,
                                title |-> Trim(SubSeq(h2Part, 1, n)),
                                filename |-> filename,
                                content |-> content]),
              chapterIndex |-> st.chapterIndex + 1,
              chapterName |-> st.chapterName,
              written |-> Append(st.written, filename),
              emitLog |-> Append(st.emitLog, TRUE)]
        ELSE [st EXCEPT !.emitLog = Append(@, FALSE)]

(***************************************************************************)
(* createOPF (lines 251-296): the item entries of the manifest and the     *)
(* itemref entries of the spine, in the order of the written text.         *)
(***************************************************************************)
NavItem == [id |-> "nav", href |-> "nav.xhtml"]
CssItem == [id |-> "css", href |-> "css/style.css"]

\* `chapter${index + 1}` (line 260), index counting from 0
ChapterId(index) == "chapter" \o ToString(index + 1)

\* A mutant of ManifestId: the manifest counts from 0, the spine from 1.
ManifestIdFromZero(index) == "chapter" \o ToString(index)

ManifestId(index) == ChapterId(index)

createOPF(chs) ==
    [manifest |->
        <<NavItem, CssItem>> \o
        [k \in 1..Len(chs) |->
            [id |-> ManifestId(k - 1), href |-> "chapters/" \o chs[k].filename]],
     spine |->
        <<[idref |-> "nav", linear |-> "no"]>> \o
        [k \in 1..Len(chs) |-> [idref |-> ChapterId(k - 1), linear |-> "yes"]]]

(***************************************************************************)
(* createNav (lines 299-347): the entries of the outer list.  Each is a    *)
(* link (href, label) with the nested list of its sections (items).        *)
(***************************************************************************)
NavGroup(chs, lastIndex, currentChapter, chapterItems) ==
    [href |-> "chapters/" \o chs[lastIndex].filename,
     label |-> currentChapter,
     items |-> chapterItems]

\* The state of the forEach of lines 304-316 after the first k records.
RECURSIVE NavLoop(_, _)
NavLoop(chs, k) ==
    IF k = 0
    THEN [navItems |-> <<>>, currentChapter |-> <<>>, chapterItems |-> <<>>]
    ELSE LET before == NavLoop(chs, k - 1)
             chapter == chs[k]
             differs == chapter.chapter # before.currentChapter
             closed == IF differs /\ before.currentChapter # <<>>
                       THEN Append(before.navItems,
                                   NavGroup(chs, k - 1, before.currentChapter,
                                            before.chapterItems))
                       ELSE before.navItems
             items == IF differs THEN <<>> ELSE before.chapterItems
         IN  [navItems |-> closed,
              currentChapter |-> chapter.chapter,
              chapterItems |->
                  Append(items, [href |-> "chapters/" \o chapter.filename,
                                 title |-> chapter.title])]

createNav(chs) ==
    LET end == NavLoop(chs, Len(chs))
    IN  IF end.currentChapter # <<>>
        THEN Append(end.navItems,
                    NavGroup(chs, Len(chs), end.currentChapter, end.chapterItems))
        ELSE end.navItems

-----------------------------------------------------------------------------
(***************************************************************************)
(* The input texts of the decomposition.  A text is written from at most   *)
(* MaxBlocks blocks: an h1 block is "<h1 >", a heading, "</h1>" and the    *)
(* text up to the next heading; an h2 block is the same with "<h2 >" and   *)
(* "</h2>".  A block that is not closed lacks its closing tag.             *)
(***************************************************************************)
Block(kind, heading, closed, content) ==
    [kind |-> kind, heading |-> heading, closed |-> closed, content |-> content]

BlockKinds ==
    {Block("h1", <<"A">>, TRUE, <<>>),
     Block("h1", <<Blank, "B", Blank>>, TRUE, <<"intro">>),
     Block("h1", <<Blank>>, TRUE, <<>>),
     Block("h1", <<OtherTag, "C">>, TRUE, <<>>),
     Block("h2", <<"One">>, TRUE, <<"text1">>),
     Block("h2", <<"Two">>, TRUE, <<Blank, "text2", OtherTag, Blank>>),
     Block("h2", <<"Three">>, TRUE, <<Blank>>),
     Block("h2", <<Blank, "Four">>, TRUE, <<"text4", BookSeparator, "footer">>),
     Block("h2", <<"Five">>, FALSE, <<"text5">>),
     Block("h2", <<"Six">>, TRUE, <<>>)}

\* The body of the concrete scenario:
\* <h1 >A</h1><h2 >One</h2>text1<h2 >Two</h2>text2<h1 >B</h1><h2 >Three</h2>text3
ScenarioBlocks ==
    <<Block("h1", <<"A">>, TRUE, <<>>),
      Block("h2", <<"One">>, TRUE, <<"text1">>),
      Block("h2", <<"Two">>, TRUE, <<"text2">>),
      Block("h1", <<"B">>, TRUE, <<>>),
      Block("h2", <<"Three">>, TRUE, <<"text3">>)>>

Render(b) ==
    <<IF b.kind = "h1" THEN H1Open ELSE H2Open>> \o b.heading
        \o (IF b.closed THEN <<IF b.kind = "h1" THEN H1Close ELSE H2Close>>
            ELSE <<>>)
        \o b.content

RenderAll(bs) == Concat([k \in 1..Len(bs) |-> Render(bs[k])])

InputBlocks == SeqsUpTo(BlockKinds, MaxBlocks) \cup {ScenarioBlocks}

EmptyLoopState ==
    [chapters |-> <<>>, chapterIndex |-> 0, chapterName |-> <<>>,
     written |-> <<>>, emitLog |-> <<>>]

\* lines 420-435: the split on "<h1 >"; the loop starts at index 1, so the
\* text before the first marker (parts[0]) is never looked at.
SplitBody ==
    /\ dpc = "split"
    /\ parts' = Split(bodyContent, H1Open)
    /\ i' = 1
    /\ dpc' = "h1"
    /\ UNCHANGED <<blocks, bodyContent, h2Parts, j, chapterName, chapters,
                   chapterIndex, written, emitLog, opf, nav, metaVars, pipeVars>>

\* lines 435-446: one turn of the outer loop up to the inner loop.  parts[i]
\* of the script is parts[i + 1] here (sequences count from 1).
OuterStep ==
    /\ dpc = "h1"
    /\ i < Len(parts)
    /\ LET part == parts[i + 1]
           n == HeadingMatch(part, H1Close)
       IN  IF n = 0
           THEN /\ i' = i + 1
                /\ UNCHANGED <<chapterName, h2Parts, j, dpc>>
           ELSE /\ chapterName' = Trim(SubSeq(part, 1, n))
                /\ h2Parts' = Split(SubSeq(part, n + 2, Len(part)), H2Open)
                /\ j' = 1
                /\ dpc' = "h2"
                /\ UNCHANGED i
    /\ UNCHANGED <<blocks, bodyContent, parts, chapters, chapterIndex, written,
                   emitLog, opf, nav, metaVars, pipeVars>>

\* lines 448-485: one turn of the inner loop
InnerStep ==
    /\ dpc = "h2"
    /\ j < Len(h2Parts)
    /\ LET st == SectionStep([chapters |-> chapters, chapterIndex |-> chapterIndex,
                              chapterName |-> chapterName, written |-> written,
                              emitLog |-> emitLog],
                             h2Parts[j + 1])
       IN  /\ chapters' = st.chapters
           /\ chapterIndex' = st.chapterIndex
           /\ written' = st.written
           /\ emitLog' = st.emitLog
    /\ j' = j + 1
    /\ UNCHANGED <<blocks, bodyContent, parts, i, h2Parts, chapterName, opf, nav, dpc,
                   metaVars, pipeVars>>

\* the inner loop ends: the outer loop goes on
InnerDone ==
    /\ dpc = "h2"
    /\ j >= Len(h2Parts)
    /\ i' = i + 1
    /\ dpc' = "h1"
    /\ UNCHANGED <<blocks, bodyContent, parts, h2Parts, j, chapterName, chapters,
                   chapterIndex, written, emitLog, opf, nav, metaVars, pipeVars>>

\* the outer loop ends; line 492
CreateOPF ==
    /\ dpc = "h1"
    /\ i >= Len(parts)
    /\ opf' = createOPF(chapters)
    /\ dpc' = "nav"
    /\ UNCHANGED <<blocks, bodyContent, parts, i, h2Parts, j, chapterName, chapters,
                   chapterIndex, written, emitLog, nav, metaVars, pipeVars>>

\* line 493
CreateNav ==
    /\ dpc = "nav"
    /\ nav' = createNav(chapters)
    /\ dpc' = "done"
    /\ UNCHANGED <<blocks, bodyContent, parts, i, h2Parts, j, chapterName, chapters,
                   chapterIndex, written, emitLog, opf, metaVars, pipeVars>>

NextDecomp ==
    SplitBody \/ OuterStep \/ InnerStep \/ InnerDone \/ CreateOPF \/ CreateNav

-----------------------------------------------------------------------------
(***************************************************************************)
(* Files, directories and archives.  A directory tree is [exists, files],  *)
(* files a set of [path, data] with one entry per path; only the data of   *)
(* the mimetype file is told apart.  An archive is the sequence of its     *)
(* entries [name, method, data], <<>> when there is no archive file.       *)
(***************************************************************************)
\* 'application/epub+zip' (part_000 line 47, update-epub-metadata.js line 137)
MimetypeContent == "application/epub+zip"

File(path, data) == [path |-> path, data |-> data]

NoDir == [exists |-> FALSE, files |-> {}]

Paths(dir) == {f.path : f \in dir.files}

\* fs.writeFileSync: the file is created or replaced
writeFileSync(dir, path, data) ==
    [dir EXCEPT !.files = {f \in @ : f.path # path} \cup {File(path, data)}]

RECURSIVE WriteAll(_, _, _)
WriteAll(dir, paths, data) ==
    IF paths = <<>> THEN dir
    ELSE WriteAll(writeFileSync(dir, Head(paths), data), Tail(paths), data)

RECURSIVE SetToSeq(_)
SetToSeq(S) ==
    IF S = {} THEN <<>>
    ELSE LET x == CHOOSE y \in S : TRUE IN <<x>> \o SetToSeq(S \ {x})

\* zip ARCHIVE FILES...: an entry of the archive with the name of a file is
\* replaced where it stands, a new entry is added at the end.
RECURSIVE ZipAdd(_, _, _)
ZipAdd(archive, files, method) ==
    IF files = <<>> THEN archive
    ELSE LET f == Head(files)
             entry == [name |-> f.path, method |-> method, data |-> f.data]
             IsF(e) == e.name = f.path
             k == FirstIndex(archive, IsF)
         IN  ZipAdd(IF k = 0 THEN Append(archive, entry)
                    ELSE [archive EXCEPT ![k] = entry],
                    Tail(files), method)

\* The outcomes of the archive command "zip -X0 ... && zip -rg ...": the
\* first zip fails, the second zip fails, or both succeed.
ZipOutcomes == {"fail1", "fail2", "ok"}

\* zip -r ARCHIVE * (update-epub-metadata.js line 149): one recursive pass
\* over the whole tree, every file compressed.
ZipOnePass(archive, dir, outcome) ==
    IF outcome = "ok" THEN ZipAdd(archive, SetToSeq(dir.files), "deflated")
    ELSE archive

\* zip -X0 ARCHIVE mimetype && zip -rg ARCHIVE <the rest>
\* (part_000 line 501, update-epub-metadata.js line 146): mimetype alone and
\* stored, then every other file of the tree, compressed.
ZipTwoPass(archive, dir, outcome) ==
    LET mimetype == {f \in dir.files : f.path = "mimetype"}
        first == ZipAdd(archive, SetToSeq(mimetype), "stored")
    IN  IF outcome = "fail1" THEN archive
        ELSE IF outcome = "fail2" THEN first
        ELSE ZipAdd(first, SetToSeq(dir.files \ mimetype), "deflated")

\* update-epub-metadata.js lines 141-150: the command that is chosen
ZipCommandA(archive, dir, outcome) ==
    IF "mimetype" \in Paths(dir)
    THEN ZipTwoPass(archive, dir, outcome)
    ELSE ZipOnePass(archive, dir, outcome)

(***************************************************************************)
(* Pipeline A, updateEpubMetadata (update-epub-metadata.js 21-180).        *)
(* The input EPUB holds a mimetype file with the right content, with       *)
(* another content (here with a line break after it) or none, and its      *)
(* package document at one of the three usual places, elsewhere or         *)
(* nowhere.                                                                *)
(***************************************************************************)
possiblePaths == <<"content.opf", "OEBPS/content.opf", "OPS/content.opf">>

\* find "${tempDir}" -name "*.opf" -type f
IsOpfName(path) == path \in Range(possiblePaths) \cup {"EPUB/package.opf"}

EpubTree(mimetype, opfAt) ==
    (IF mimetype = "" THEN {} ELSE {File("mimetype", mimetype)})
    \cup {File("META-INF/container.xml", ""), File("OEBPS/chapter1.xhtml", "")}
    \cup (IF opfAt = "" THEN {} ELSE {File(opfAt, "")})

InputFiles ==
    {[exists |-> FALSE, files |-> {}]}
    \cup {[exists |-> TRUE, files |-> EpubTree(m, o)] :
             m \in {"", MimetypeContent, "application/epub+zip\n"},
             o \in {"", "content.opf", "OEBPS/content.opf", "OPS/content.opf",
                    "EPUB/package.opf"}}

\* A mutant of CheckInput: the run ends without process.exit(1).
CheckInputReturns(input) ==
    IF ~input.exists
    THEN [pc |-> "done", exitCode |-> 0, failure |-> "Input file not found"]
    ELSE [pc |-> "A_mkdir", exitCode |-> -1, failure |-> ""]

\* lines 28-32
CheckInput(input) ==
    IF ~input.exists
    THEN [pc |-> "done", exitCode |-> 1, failure |-> "Input file not found"]
    ELSE [pc |-> "A_mkdir", exitCode |-> -1, failure |-> ""]

\* lines 48-71: the package document among the files of the tree, "" if none.
\* findOk tells whether the find command, when it is run, succeeds.
FindOpf(dir) ==
    LET IsThere(p) == p \in Paths(dir)
        k == FirstIndex(possiblePaths, IsThere)
        opfFiles == {p \in Paths(dir) : IsOpfName(p)}
    IN  IF k # 0 THEN possiblePaths[k]
        ELSE IF opfFiles # {} THEN CHOOSE p \in opfFiles : TRUE
        ELSE ""

\* lines 135-138: the mimetype file is written only when there is none
EnsureMimetype(dir) ==
    IF "mimetype" \notin Paths(dir)
    THEN writeFileSync(dir, "mimetype", MimetypeContent)
    ELSE dir

ResetRun ==
    /\ exitCode' = -1
    /\ failure' = ""
    /\ reported' = FALSE
    /\ scratchCreated' = FALSE
    /\ cleanupAttempted' = FALSE
    /\ zipInvoked' = FALSE
    /\ zipDone' = FALSE
    /\ chapters' = <<>>
    /\ opf' = [manifest |-> <<>>, spine |-> <<>>]
    /\ nav' = <<>>
    /\ opfPath' = ""

\* the script is started; the input EPUB is whatever lies at its path
StartA ==
    /\ pc \in {"idle", "done"}
    /\ runs < MaxRuns
    /\ runs' = runs + 1
    /\ pipeline' = "A"
    /\ pc' = "A_check"
    /\ inputFile' \in InputFiles
    /\ ResetRun
    /\ UNCHANGED <<tempDir, outputFile, fileVarsB, metaVars, loopVars>>

\* lines 28-32
A_CheckInput ==
    /\ pc = "A_check"
    /\ LET r == CheckInput(inputFile)
       IN  pc' = r.pc /\ exitCode' = r.exitCode /\ failure' = r.failure
    /\ UNCHANGED <<pipeline, runs, reported, historyVars, fileVarsA, fileVarsB,
                   metaVars, decVars>>

\* lines 36-40: an old scratch directory is removed, a new one is made
A_MakeTempDir ==
    /\ pc = "A_mkdir"
    /\ \E rmOk \in BOOLEAN :
          IF tempDir.exists /\ ~rmOk
          THEN /\ pc' = "A_catch"
               /\ failure' = "rm failed"
               /\ UNCHANGED <<tempDir, scratchCreated>>
          ELSE /\ rmOk
               /\ tempDir' = [exists |-> TRUE, files |-> {}]
               /\ scratchCreated' = TRUE
               /\ pc' = "A_unzip"
               /\ UNCHANGED failure
    /\ UNCHANGED <<pipeline, runs, exitCode, reported, cleanupAttempted, zipInvoked,
                   zipDone, inputFile, opfPath, outputFile, fileVarsB, metaVars,
                   decVars>>

\* line 44
A_Unzip ==
    /\ pc = "A_unzip"
    /\ \E ok \in BOOLEAN :
          IF ok
          THEN /\ tempDir' = [tempDir EXCEPT !.files = inputFile.files]
               /\ pc' = "A_find"
               /\ UNCHANGED failure
          ELSE /\ pc' = "A_catch"
               /\ failure' = "unzip failed"
               /\ UNCHANGED tempDir
    /\ UNCHANGED <<pipeline, runs, exitCode, reported, historyVars, inputFile,
                   opfPath, outputFile, fileVarsB, metaVars, decVars>>

\* lines 48-78: the find command runs only when no usual place holds the
\* document; without a document the process exits at once (line 75)
A_FindOpf ==
    /\ pc = "A_find"
    /\ LET usual == \E k \in 1..Len(possiblePaths) :
                        possiblePaths[k] \in Paths(tempDir)
           found == FindOpf(tempDir)
       IN  \E findOk \in BOOLEAN :
              IF ~usual /\ ~findOk
              THEN /\ pc' = "A_catch"
                   /\ failure' = "find failed"
                   /\ UNCHANGED <<opfPath, exitCode>>
              ELSE /\ findOk
                   /\ IF found = ""
                      THEN /\ pc' = "done"
                           /\ exitCode' = 1
                           /\ failure' = "Could not find OPF file in EPUB"
                           /\ UNCHANGED opfPath
                      ELSE /\ opfPath' = found
                           /\ pc' = "A_update"
                           /\ UNCHANGED <<failure, exitCode>>
    /\ UNCHANGED <<pipeline, runs, reported, historyVars, inputFile, tempDir,
                   outputFile, fileVarsB, metaVars, decVars>>

\* lines 81-138: the package document is read, updated and written back,
\* and the mimetype file is written if the tree has none
A_UpdateOpf ==
    /\ pc = "A_update"
    /\ tempDir' = EnsureMimetype(writeFileSync(tempDir, opfPath, "updated"))
    /\ pc' = "A_zip"
    /\ UNCHANGED <<pipeline, runs, exitCode, failure, reported, historyVars,
                   inputFile, opfPath, outputFile, fileVarsB, metaVars, decVars>>

\* lines 141-152
A_Zip ==
    /\ pc = "A_zip"
    /\ zipInvoked' = TRUE
    /\ \E outcome \in ZipOutcomes :
          /\ outputFile' = ZipCommandA(outputFile, tempDir, outcome)
          /\ zipDone' = (outcome = "ok")
          /\ pc' = IF outcome = "ok" THEN "A_cleanup" ELSE "A_catch"
          /\ failure' = IF outcome = "ok" THEN failure ELSE "zip failed"
    /\ UNCHANGED <<pipeline, runs, exitCode, reported, scratchCreated,
                   cleanupAttempted, inputFile, tempDir, opfPath, fileVarsB,
                   metaVars, decVars>>

\* line 156
A_Cleanup ==
    /\ pc = "A_cleanup"
    /\ cleanupAttempted' = TRUE
    /\ \E rmOk \in BOOLEAN :
          IF rmOk
          THEN /\ tempDir' = NoDir
               /\ pc' = "A_report"
               /\ UNCHANGED failure
          ELSE /\ pc' = "A_catch"
               /\ failure' = "rm failed"
               /\ UNCHANGED tempDir
    /\ UNCHANGED <<pipeline, runs, exitCode, reported, scratchCreated, zipInvoked,
                   zipDone, inputFile, opfPath, outputFile, fileVarsB, metaVars,
                   decVars>>

\* lines 159-170: the success message; the process then ends with status 0
A_Report ==
    /\ pc = "A_report"
    /\ reported' = TRUE
    /\ pc' = "done"
    /\ exitCode' = 0
    /\ UNCHANGED <<pipeline, runs, failure, historyVars, fileVarsA, fileVarsB,
                   metaVars, decVars>>

\* lines 172-179.  When the rm of the handler fails, the promise of
\* updateEpubMetadata is rejected and nobody handles it (line 183): the
\* status is then 1 or 0, as the Node.js version has it.
A_Catch ==
    /\ pc = "A_catch"
    /\ pc' = "done"
    /\ IF tempDir.exists
       THEN /\ cleanupAttempted' = TRUE
            /\ \E rmOk \in BOOLEAN :
                  IF rmOk
                  THEN tempDir' = NoDir /\ exitCode' = 1
                  ELSE UNCHANGED tempDir /\ exitCode' \in {0, 1}
       ELSE /\ exitCode' = 1
            /\ UNCHANGED <<tempDir, cleanupAttempted>>
    /\ UNCHANGED <<pipeline, runs, failure, reported, scratchCreated, zipInvoked,
                   zipDone, inputFile, opfPath, outputFile, fileVarsB, metaVars,
                   decVars>>

(***************************************************************************)
(* Pipeline B, buildEPUB (part_000 385-529).                               *)
(***************************************************************************)
BodyOpen  == "<body>"
BodyClose == "</body>"

\* allHtml.match(/<body[^>]*>([\s\S]*?)<\/body\s*>/) (line 424): the text
\* between the first "<body>" and the first "</body>" after it.
BodyMatch(html) ==
    LET IsOpen(t) == t = BodyOpen
        IsClose(t) == t = BodyClose
        a == FirstIndex(html, IsOpen)
        rest == SubSeq(html, a + 1, Len(html))
        b == FirstIndex(rest, IsClose)
    IN  IF a # 0 /\ b # 0
        THEN [found |-> TRUE, content |-> SubSeq(rest, 1, b - 1)]
        ELSE [found |-> FALSE, content |-> <<>>]

\* The two loops of lines 435-486 as a whole.
RECURSIVE InnerLoop(_, _, _)
InnerLoop(st, hs, jj) ==
    IF jj >= Len(hs) THEN st
    ELSE InnerLoop(SectionStep(st, hs[jj + 1]), hs, jj + 1)

RECURSIVE OuterLoop(_, _, _)
OuterLoop(st, ps, ii) ==
    IF ii >= Len(ps) THEN st
    ELSE LET part == ps[ii + 1]
             n == HeadingMatch(part, H1Close)
         IN  IF n = 0 THEN OuterLoop(st, ps, ii + 1)
             ELSE OuterLoop(
                      InnerLoop([st EXCEPT !.chapterName = Trim(SubSeq(part, 1, n))],
                                Split(SubSeq(part, n + 2, Len(part)), H2Open), 1),
                      ps, ii + 1)

Decompose(body) == OuterLoop(EmptyLoopState, Split(body, H1Open), 1)

\* The texts out/all.html may hold: no body, a body without a chapter, with
\* one chapter, and the three chapters of the concrete scenario.
HtmlOf(bs) ==
    <<"<html>", BodyOpen, "header">> \o RenderAll(bs) \o <<BodyClose, "</html>">>

HtmlTexts ==
    {<<"<html>", "text", "</html>">>,
     HtmlOf(<<>>),
     HtmlOf(<<Block("h1", <<"A">>, TRUE, <<>>),
              Block("h2", <<"One">>, TRUE, <<"text1">>)>>),
     HtmlOf(ScenarioBlocks)}

NoHtml == [exists |-> FALSE, text |-> <<>>]

HtmlFiles == {NoHtml} \cup {[exists |-> TRUE, text |-> t] : t \in HtmlTexts}

\* createMimetype, createContainer, createDisplayOptions, createCSS (43-248)
StaticFiles ==
    <<"META-INF/container.xml",
      "META-INF/com.apple.ibooks.display-options.xml",
      "OEBPS/css/style.css">>

CreateStructureFiles(dir) ==
    WriteAll(writeFileSync(dir, "mimetype", MimetypeContent), StaticFiles, "")

\* path.join(outputDir, 'OEBPS', 'chapters', filename) (line 481)
ChapterPath(filename) == "OEBPS/chapters/" \o filename

\* A mutant of CreatePackageFiles: the navigation document is not written.
CreatePackageFilesNoNav(dir) == writeFileSync(dir, "OEBPS/content.opf", "")

\* the files createOPF and createNav write (lines 292-295, 343-346)
CreatePackageFiles(dir) ==
    writeFileSync(writeFileSync(dir, "OEBPS/content.opf", ""), "OEBPS/nav.xhtml", "")

\* the script is started; out/all.html is whatever lies at its path, and the
\* archive path of the day is that of the last run or, on a later day, new
StartB ==
    /\ pc \in {"idle", "done"}
    /\ runs < MaxRuns
    /\ runs' = runs + 1
    /\ pipeline' = "B"
    /\ pc' = "B_dirs"
    /\ allHtml' \in HtmlFiles
    /\ epubPath' \in {epubPath, <<>>}
    /\ ResetRun
    /\ UNCHANGED <<inputFile, tempDir, outputFile, outputDir, metaVars, loopVars>>

\* line 390, createDirectories (27-41): what exists is left as it is
B_CreateDirectories ==
    /\ pc = "B_dirs"
    /\ outputDir' = [outputDir EXCEPT !.exists = TRUE]
    /\ scratchCreated' = TRUE
    /\ pc' = "B_html"
    /\ UNCHANGED <<pipeline, runs, exitCode, failure, reported, cleanupAttempted,
                   zipInvoked, zipDone, fileVarsA, allHtml, epubPath, metaVars,
                   decVars>>

\* lines 393-405: without out/all.html the site is generated; the command
\* fails, or it succeeds and has, or has not, written out/all.html
B_CheckHtml ==
    /\ pc = "B_html"
    /\ IF allHtml.exists
       THEN /\ pc' = "B_files"
            /\ UNCHANGED <<allHtml, exitCode, failure>>
       ELSE \/ /\ pc' = "done"
               /\ exitCode' = 1
               /\ failure' = "Error generating site"
               /\ UNCHANGED allHtml
            \/ /\ pc' = "B_files"
               /\ allHtml' \in HtmlFiles
               /\ UNCHANGED <<exitCode, failure>>
    /\ UNCHANGED <<pipeline, runs, reported, historyVars, fileVarsA, outputDir,
                   epubPath, metaVars, decVars>>

\* lines 409-412
B_CreateFiles ==
    /\ pc = "B_files"
    /\ outputDir' = CreateStructureFiles(outputDir)
    /\ pc' = "B_chapters"
    /\ UNCHANGED <<pipeline, runs, exitCode, failure, reported, historyVars,
                   fileVarsA, allHtml, epubPath, metaVars, decVars>>

\* lines 417-486: readFileSync throws without the file and the handler of
\* line 526 ends the process; so does a text without a body (line 427)
B_ProcessChapters ==
    /\ pc = "B_chapters"
    /\ LET bodyMatch == BodyMatch(allHtml.text)
           st == Decompose(bodyMatch.content)
       IN  IF ~allHtml.exists \/ ~bodyMatch.found
           THEN /\ pc' = "done"
                /\ exitCode' = 1
                /\ failure' = IF ~allHtml.exists THEN "Build failed"
                              ELSE "Could not find body content"
                /\ UNCHANGED <<chapters, outputDir>>
           ELSE /\ chapters' = st.chapters
                /\ outputDir' = WriteAll(outputDir,
                                    [k \in 1..Len(st.written) |->
                                        ChapterPath(st.written[k])], "")
                /\ pc' = "B_package"
                /\ UNCHANGED <<exitCode, failure>>
    /\ UNCHANGED <<pipeline, runs, reported, historyVars, fileVarsA, allHtml,
                   epubPath, metaVars, loopVars, opf, nav>>

\* lines 492-493
B_CreatePackage ==
    /\ pc = "B_package"
    /\ opf' = createOPF(chapters)
    /\ nav' = createNav(chapters)
    /\ outputDir' = CreatePackageFiles(outputDir)
    /\ pc' = "B_zip"
    /\ UNCHANGED <<pipeline, runs, exitCode, failure, reported, historyVars,
                   fileVarsA, allHtml, epubPath, metaVars, loopVars, chapters>>

\* lines 501-505 and 519-522: the archive command; its failure ends the
\* process, its success is reported at once
B_Zip ==
    /\ pc = "B_zip"
    /\ zipInvoked' = TRUE
    /\ \E outcome \in ZipOutcomes :
          /\ epubPath' = ZipTwoPass(epubPath, outputDir, outcome)
          /\ zipDone' = (outcome = "ok")
          /\ reported' = (outcome = "ok")
          /\ pc' = IF outcome = "ok" THEN "B_cleanup" ELSE "done"
          /\ exitCode' = IF outcome = "ok" THEN exitCode ELSE 1
          /\ failure' = IF outcome = "ok" THEN failure ELSE "Error creating EPUB"
    /\ UNCHANGED <<pipeline, runs, scratchCreated, cleanupAttempted, fileVarsA,
                   allHtml, outputDir, metaVars, decVars>>

\* lines 509-522: the scratch directory is removed; a failing rm is caught
\* by the same handler as a failing zip
B_Cleanup ==
    /\ pc = "B_cleanup"
    /\ cleanupAttempted' = TRUE
    /\ pc' = "done"
    /\ \E rmOk \in BOOLEAN :
          IF rmOk
          THEN /\ outputDir' = NoDir
               /\ exitCode' = 0
               /\ UNCHANGED failure
          ELSE /\ exitCode' = 1
               /\ failure' = "Error creating EPUB"
               /\ UNCHANGED outputDir
    /\ UNCHANGED <<pipeline, runs, reported, scratchCreated, zipInvoked, zipDone,
                   fileVarsA, allHtml, epubPath, metaVars, decVars>>

NextA ==
    \/ StartA \/ A_CheckInput \/ A_MakeTempDir \/ A_Unzip \/ A_FindOpf
    \/ A_UpdateOpf \/ A_Zip \/ A_Cleanup \/ A_Report \/ A_Catch

NextB ==
    \/ StartB \/ B_CreateDirectories \/ B_CheckHtml \/ B_CreateFiles
    \/ B_ProcessChapters \/ B_CreatePackage \/ B_Zip \/ B_Cleanup

Next == NextA \/ NextB

-----------------------------------------------------------------------------
(***************************************************************************)
(* Properties of the substitution engine (checked under SpecMeta).         *)
(***************************************************************************)
Occurrences(content, fullTag) ==
    Cardinality({k \in 1..Len(content) : content[k].tag = fullTag})

\* The seven field updates of the current or of an earlier run are done.
FieldsUpdated == mpc \in {"contributor", "date"} \/ engineRuns > 0

\* C1: once the seven field updates have run, the text holds exactly one
\* element of each of the seven tags, and that element holds the new value
\* of the metadata record, whether the tag was absent, present once or
\* present several times before.  It is stated here for the documents that
\* hold "</metadata>" and whose elements are each closed on their own line,
\* the plainest documents the claim covers.
PlainPackageDocument(content) ==
    /\ EndMetadata \in Range(content)
    /\ \A k \in 1..Len(content) : content[k].oneLine

C1_ExactlyOneOfEachField ==
    (FieldsUpdated /\ PlainPackageDocument(opfContent)) =>
        \A f \in 1..Len(FieldUpdates) :
            LET fullTag == FullTag("dc", FieldUpdates[f][1])
            IN  /\ Occurrences(opfContent, fullTag) = 1
                /\ \A k \in 1..Len(opfContent) :
                       opfContent[k].tag = fullTag
                           => opfContent[k].value = FieldUpdates[f][2]

\* C9: a second run of the engine adds no dc:contributor and no dc:date
\* element, and its seven field updates add no element either: every count
\* after the second run is the count after the first, and every element the
\* regular expression matches holds the new value.
C9_SecondRunAddsNothing ==
    engineRuns >= 2 =>
        /\ Occurrences(opfContent, "dc:contributor")
               = Occurrences(afterFirst, "dc:contributor")
        /\ Occurrences(opfContent, "dc:date")
               = Occurrences(afterFirst, "dc:date")
        /\ \A f \in 1..Len(FieldUpdates) :
               LET fullTag == FullTag("dc", FieldUpdates[f][1])
               IN  /\ Occurrences(opfContent, fullTag)
                         = Occurrences(afterFirst, fullTag)
                   /\ \A k \in 1..Len(opfContent) :
                          RegexMatches(opfContent[k], fullTag)
                              => opfContent[k].value = FieldUpdates[f][2]

\* Two runs are done, and the first one inserted the translator and the date
\* and updated an existing title.
C9_Witness ==
    /\ engineRuns = 2
    /\ ContributorElement \in Range(afterFirst)
    /\ DateElement \in Range(afterFirst)
    /\ Occurrences(afterFirst, "dc:title") = 1
    /\ Occurrences(afterFirst, "dc:subject") = 2

-----------------------------------------------------------------------------
(***************************************************************************)
(* Properties of the decomposition (checked under SpecDecomp).  What the   *)
(* loop must give is read off the blocks the text was written from, with   *)
(* definitions of its own.                                                 *)
(***************************************************************************)
\* The loops of lines 435-486 have ended.
LoopDone == dpc \in {"nav", "done"}

\* s without the white space at its two ends
Stripped(s) ==
    LET inked == {k \in 1..Len(s) : s[k] # Blank}
    IN  IF inked = {} THEN <<>>
        ELSE SubSeq(s, CHOOSE a \in inked : \A k \in inked : a <= k,
                       CHOOSE b \in inked : \A k \in inked : b >= k)

\* the content of a section up to the end-of-book separator, if it holds one
BeforeSeparator(c) ==
    IF BookSeparator \in Range(c)
    THEN SubSeq(c, 1, (CHOOSE k \in 1..Len(c) :
                          /\ c[k] = BookSeparator
                          /\ \A m \in 1..(k - 1) : c[m] # BookSeparator) - 1)
    ELSE c

\* N >= 1 top-level sections, each with a heading of plain text and at least
\* one subsection, each subsection with a heading of plain text
TwoLevel(bs) ==
    /\ bs # <<>>
    /\ bs[1].kind = "h1"
    /\ \A k \in 1..Len(bs) :
          /\ bs[k].closed
          /\ bs[k].heading # <<>>
          /\ \A t \in Range(bs[k].heading) : ~StartsWithLt(t)
          /\ bs[k].kind = "h1" => (k < Len(bs) /\ bs[k + 1].kind = "h2")

\* the positions of the subsections, in document order
SectionPositions(bs) ==
    LET IsSection(k) == bs[k].kind = "h2"
    IN  SelectSeq([k \in 1..Len(bs) |-> k], IsSection)

\* the top-level heading a subsection stands under
GroupOf(bs, p) ==
    bs[CHOOSE q \in 1..(p - 1) :
          /\ bs[q].kind = "h1"
          /\ \A r \in (q + 1)..(p - 1) : bs[r].kind # "h1"].heading

NumberedName(n) == "chapter" \o ToString(n) \o ".xhtml"

\* the records of a two-level text, field for field the text between the
\* markers
LiteralRecords(bs) ==
    LET ps == SectionPositions(bs)
    IN  [n \in 1..Len(ps) |->
            [chapter |-> GroupOf(bs, ps[n]),
             title |-> bs[ps[n]].heading,
             filename |-> NumberedName(n),
             content |-> BeforeSeparator(bs[ps[n]].content)]]

\* the same with the white space at the ends of each field removed
StrippedRecords(bs) ==
    LET ps == SectionPositions(bs)
    IN  [n \in 1..Len(ps) |->
            [chapter |-> Stripped(GroupOf(bs, ps[n])),
             title |-> Stripped(bs[ps[n]].heading),
             filename |-> NumberedName(n),
             content |-> Stripped(BeforeSeparator(bs[ps[n]].content))]]

\* C2 as stated: for a two-level text whose subsections all have non-empty
\* content, the loop gives one record per subsection, in document order,
\* numbered chapter1.xhtml, chapter2.xhtml, ..., with group, title and
\* content equal to the literal text between the markers.  It is stated
\* here for the texts whose headings hold no white space and whose contents
\* are not white space only.
C2_LiteralRecords ==
    (/\ LoopDone
     /\ TwoLevel(blocks)
     /\ \A k \in 1..Len(blocks) :
           /\ Blank \notin Range(blocks[k].heading)
           /\ blocks[k].kind = "h2"
                 => Stripped(BeforeSeparator(blocks[k].content)) # <<>>)
        => chapters = LiteralRecords(blocks)

\* C2 as amended: for a two-level text whose subsections all have content
\* that is not only white space, the loop gives one record per subsection,
\* in document order, numbered chapter1.xhtml, chapter2.xhtml, ..., with
\* group, title and content equal to the text between the markers without
\* the white space at its two ends.
C2_StrippedRecords ==
    (/\ LoopDone
     /\ TwoLevel(blocks)
     /\ \A k \in 1..Len(blocks) :
           blocks[k].kind = "h2"
               => Stripped(BeforeSeparator(blocks[k].content)) # <<>>)
        => chapters = StrippedRecords(blocks)

\* The concrete scenario has given its three records.
C2_Witness ==
    /\ LoopDone
    /\ blocks = ScenarioBlocks
    /\ chapters =
          <<[chapter |-> <<"A">>, title |-> <<"One">>,
             filename |-> "chapter1.xhtml", content |-> <<"text1">>],
            [chapter |-> <<"A">>, title |-> <<"Two">>,
             filename |-> "chapter2.xhtml", content |-> <<"text2">>],
            [chapter |-> <<"B">>, title |-> <<"Three">>,
             filename |-> "chapter3.xhtml", content |-> <<"text3">>]>>

\* C3: at every point of the loop the records are numbered chapter1.xhtml
\* to chapter<k>.xhtml without gap or repeat, k the number of records so
\* far; the counter is k; one fragment file has been written per record and
\* no other; and no record has empty or white-space-only content, so a
\* section with such content gives no record, no file and takes no number.
C3_ContiguousNumbering ==
    /\ chapterIndex = Len(chapters)
    /\ \A n \in 1..Len(chapters) :
          /\ chapters[n].filename = NumberedName(n)
          /\ Stripped(chapters[n].content) # <<>>
    /\ written = [n \in 1..Len(chapters) |-> chapters[n].filename]
    /\ Len(chapters) = Cardinality({k \in 1..Len(emitLog) : emitLog[k]})

\* A section was dropped between two sections that gave a record.
C3_Witness ==
    /\ Len(chapters) = 2
    /\ \E a, b, c \in 1..Len(emitLog) :
          a < b /\ b < c /\ emitLog[a] /\ ~emitLog[b] /\ emitLog[c]

\* C4: the manifest holds one item per chapter record, whose href is the
\* fragment file of the record, one item for the stylesheet and one for the
\* navigation document, and nothing else; the spine starts with the
\* navigation document, marked non-linear, and goes on with one itemref per
\* record in the order of the records, each resolving to the one manifest
\* item whose href is the fragment file of its record.
C4_ManifestAndSpine ==
    dpc \in {"nav", "done"} =>
        LET m == opf.manifest
            sp == opf.spine
            ItemsWithHref(h) == {k \in 1..Len(m) : m[k].href = h}
            ItemsWithId(x) == {k \in 1..Len(m) : m[k].id = x}
        IN  /\ Len(m) = Len(chapters) + 2
            /\ Cardinality(ItemsWithHref("css/style.css")) = 1
            /\ Cardinality(ItemsWithHref("nav.xhtml")) = 1
            /\ \A n \in 1..Len(chapters) :
                  Cardinality(ItemsWithHref("chapters/" \o chapters[n].filename)) = 1
            /\ Len(sp) = Len(chapters) + 1
            /\ sp[1].linear = "no"
            /\ ItemsWithId(sp[1].idref) = ItemsWithHref("nav.xhtml")
            /\ \A n \in 1..Len(chapters) :
                  /\ sp[n + 1].linear # "no"
                  /\ Cardinality(ItemsWithId(sp[n + 1].idref)) = 1
                  /\ ItemsWithId(sp[n + 1].idref)
                        = ItemsWithHref("chapters/" \o chapters[n].filename)

\* createOPF has written the package document of three chapters.
C4_Witness ==
    /\ dpc = "done"
    /\ Len(chapters) = 3
    /\ Len(opf.spine) = 4

\* the records at which a group starts: the first, and each whose group is
\* not that of the record before it
GroupStarts(chs) ==
    LET Starts(n) == n = 1 \/ chs[n].chapter # chs[n - 1].chapter
    IN  SelectSeq([n \in 1..Len(chs) |-> n], Starts)

NavAsClaimed(chs, groups) ==
    /\ Concat([g \in 1..Len(groups) |-> groups[g].items])
          = [n \in 1..Len(chs) |->
                [href |-> "chapters/" \o chs[n].filename, title |-> chs[n].title]]
    /\ [g \in 1..Len(groups) |-> groups[g].label]
          = [g \in 1..Len(GroupStarts(chs)) |-> chs[GroupStarts(chs)[g]].chapter]
    /\ \A g \in 1..Len(groups) : groups[g].items # <<>>

\* C5: the navigation document lists every record once, in the order of the
\* records, each in the nested list of its group; a group entry starts at
\* the first record and at each record whose group differs from that of the
\* record before it, so the group labels are the groups of those records in
\* order (a name that comes back later gives a second entry).
C5_NavListsAllRecords ==
    dpc = "done" => NavAsClaimed(chapters, nav)

\* What createNav does keep: the same for the record sequences in which no
\* group name is empty.
NavListsNamedGroups ==
    (dpc = "done" /\ \A n \in 1..Len(chapters) : chapters[n].chapter # <<>>)
        => NavAsClaimed(chapters, nav)

-----------------------------------------------------------------------------
(***************************************************************************)
(* Properties of whole runs (checked under Spec).                          *)
(***************************************************************************)
\* the archive the running script writes
Archive == IF pipeline = "A" THEN outputFile ELSE epubPath

\* C6: after a run that reports success, the first entry of the output
\* archive is the file mimetype, stored without compression, with content
\* exactly application/epub+zip, and every other entry is another file, put
\* in by a second, compressed pass; also when the archive path held the
\* archive of an earlier run.
C6_MimetypeFirst ==
    (pc = "done" /\ reported /\ exitCode = 0) =>
        /\ Archive # <<>>
        /\ Archive[1] = [name |-> "mimetype", method |-> "stored",
                         data |-> MimetypeContent]
        /\ \A k \in 2..Len(Archive) :
              Archive[k].name # "mimetype" /\ Archive[k].method = "deflated"

\* C7: a run that ends with a non-zero status after its scratch directory
\* was created has tried to delete the scratch directory before it ended.
C7_CleanupBeforeFailureExit ==
    (pc = "done" /\ exitCode # 0 /\ scratchCreated) => cleanupAttempted

\* C8: a run of Pipeline A without its input EPUB, and a run of Pipeline B
\* without out/all.html whose generation step fails, ends with status 1
\* without ever starting the archive command, so it writes no archive.
C8_NoArchiveWithoutInput ==
    /\ (pipeline = "A" /\ pc # "A_check" /\ ~inputFile.exists) =>
          pc = "done" /\ exitCode = 1 /\ ~zipInvoked /\ ~reported
    /\ (pipeline = "B" /\ failure = "Error generating site") =>
          pc = "done" /\ exitCode = 1 /\ ~zipInvoked /\ ~reported

\* A run of Pipeline B has ended on the failing generation step, after a
\* first run had ended on some failure too.
C8_Witness ==
    /\ pipeline = "B"
    /\ runs = 2
    /\ pc = "done"
    /\ ~allHtml.exists
    /\ failure = "Error generating site"
    /\ epubPath = <<>>

\* the files the package refers to: the mimetype marker, the container
\* pointer and what it points to, the display options, the navigation
\* document, and every href of the manifest (relative to OEBPS)
ReferencedFiles ==
    {"mimetype", "META-INF/container.xml",
     "META-INF/com.apple.ibooks.display-options.xml",
     "OEBPS/css/style.css", "OEBPS/nav.xhtml", "OEBPS/content.opf"}
    \cup {"OEBPS/" \o opf.manifest[k].href : k \in 1..Len(opf.manifest)}
    \cup {ChapterPath(chapters[n].filename) : n \in 1..Len(chapters)}

\* C10: in a run of Pipeline B the archive step starts, and runs, with every
\* file the package refers to in the scratch tree; and the scratch directory
\* is gone only after the archive step of that run has succeeded.
C10_FilesBeforeArchive ==
    pipeline = "B" =>
        /\ (pc \in {"B_zip", "B_cleanup"} \/ zipInvoked) /\ outputDir.exists
              => ReferencedFiles \subseteq Paths(outputDir)
        /\ pc = "B_zip" => outputDir.exists
        /\ (pc \notin {"B_dirs"} /\ ~outputDir.exists) => zipDone

\* The archive step of a run with three chapters is about to start.
C10_Witness ==
    /\ pipeline = "B"
    /\ pc = "B_zip"
    /\ Len(chapters) = 3
    /\ Len(opf.manifest) = 5

\* the files of the scratch tree that are not chapter fragment files
FixedFiles ==
    {"mimetype", "OEBPS/content.opf", "OEBPS/nav.xhtml"} \cup Range(StaticFiles)

\* the chapter fragment files that "zip -rg ... OEBPS" finds in the tree
ArchivedFragments == Paths(outputDir) \ FixedFiles

\* the chapter files the manifest of the run lists
ManifestFragments ==
    {"OEBPS/" \o opf.manifest[k].href : k \in 1..Len(opf.manifest)} \ FixedFiles

\* C11: when the archive command of a run of Pipeline B has succeeded, the
\* chapter fragment files it has put into the archive (those of the scratch
\* tree it ran over) are exactly the chapter files in the manifest of that
\* run, whatever runs came before; no fragment of an earlier run is
\* archived without being referenced.
C11_ArchivedFragmentsAreManifest ==
    (pipeline = "B" /\ pc = "B_cleanup" /\ zipDone)
        => ArchivedFragments = ManifestFragments

-----------------------------------------------------------------------------
(***************************************************************************)
(* The three specifications.  Each starts its own part of the state and    *)
(* leaves the other parts at rest.                                         *)
(***************************************************************************)
\* the engine is about to run on a document that was read (line 81)
InitMeta ==
    /\ opfContent \in Documents
    /\ mpc = "fields"
    /\ engineRuns = 0
    /\ afterFirst = <<>>
    /\ blocks = <<>>
    /\ bodyContent = <<>>
    /\ parts = <<>>
    /\ i = 0
    /\ h2Parts = <<>>
    /\ j = 0
    /\ chapterName = <<>>
    /\ chapters = <<>>
    /\ chapterIndex = 0
    /\ written = <<>>
    /\ emitLog = <<>>
    /\ opf = [manifest |-> <<>>, spine |-> <<>>]
    /\ nav = <<>>
    /\ dpc = "idle"
    /\ pipeline = "none"
    /\ pc = "idle"
    /\ runs = 0
    /\ exitCode = -1
    /\ failure = ""
    /\ reported = FALSE
    /\ inputFile = [exists |-> FALSE, files |-> {}]
    /\ tempDir = NoDir
    /\ opfPath = ""
    /\ outputFile = <<>>
    /\ allHtml = NoHtml
    /\ outputDir = NoDir
    /\ epubPath = <<>>
    /\ scratchCreated = FALSE
    /\ cleanupAttempted = FALSE
    /\ zipInvoked = FALSE
    /\ zipDone = FALSE

\* the body text has been found (lines 424-430), the loop has not started
InitDecomp ==
    /\ opfContent = <<>>
    /\ mpc = "idle"
    /\ engineRuns = 0
    /\ afterFirst = <<>>
    /\ blocks \in InputBlocks
    /\ bodyContent = RenderAll(blocks)
    /\ parts = <<>>
    /\ i = 0
    /\ h2Parts = <<>>
    /\ j = 0
    /\ chapterName = <<>>
    /\ chapters = <<>>
    /\ chapterIndex = 0
    /\ written = <<>>
    /\ emitLog = <<>>
    /\ opf = [manifest |-> <<>>, spine |-> <<>>]
    /\ nav = <<>>
    /\ dpc = "split"
    /\ pipeline = "none"
    /\ pc = "idle"
    /\ runs = 0
    /\ exitCode = -1
    /\ failure = ""
    /\ reported = FALSE
    /\ inputFile = [exists |-> FALSE, files |-> {}]
    /\ tempDir = NoDir
    /\ opfPath = ""
    /\ outputFile = <<>>
    /\ allHtml = NoHtml
    /\ outputDir = NoDir
    /\ epubPath = <<>>
    /\ scratchCreated = FALSE
    /\ cleanupAttempted = FALSE
    /\ zipInvoked = FALSE
    /\ zipDone = FALSE

\* no script has run yet: no scratch directory, no archive
Init ==
    /\ opfContent = <<>>
    /\ mpc = "idle"
    /\ engineRuns = 0
    /\ afterFirst = <<>>
    /\ blocks = <<>>
    /\ bodyContent = <<>>
    /\ parts = <<>>
    /\ i = 0
    /\ h2Parts = <<>>
    /\ j = 0
    /\ chapterName = <<>>
    /\ chapters = <<>>
    /\ chapterIndex = 0
    /\ written = <<>>
    /\ emitLog = <<>>
    /\ opf = [manifest |-> <<>>, spine |-> <<>>]
    /\ nav = <<>>
    /\ dpc = "idle"
    /\ pipeline = "none"
    /\ pc = "idle"
    /\ runs = 0
    /\ exitCode = -1
    /\ failure = ""
    /\ reported = FALSE
    /\ inputFile = [exists |-> FALSE, files |-> {}]
    /\ tempDir = NoDir
    /\ opfPath = ""
    /\ outputFile = <<>>
    /\ allHtml = NoHtml
    /\ outputDir = NoDir
    /\ epubPath = <<>>
    /\ scratchCreated = FALSE
    /\ cleanupAttempted = FALSE
    /\ zipInvoked = FALSE
    /\ zipDone = FALSE

SpecMeta == InitMeta /\ [][NextMeta]_vars

SpecDecomp == InitDecomp /\ [][NextDecomp]_vars

Spec == Init /\ [][Next]_vars

====
